---- MODULE Spec2Model ----
(***************************************************************************)
(* Model of src/src/utils/loading.js: the global loading overlay.  The     *)
(* module-scoped state (loadingCount, loadingInstance, prevOverflow,       *)
(* widthPercent), the part of the host document the code touches (the      *)
(* children of document.body, document.body.style.overflow, the injected   *)
(* style element), and the callbacks the code leaves pending (setTimeout   *)
(* teardowns, requestAnimationFrame callbacks, transitionend listeners).   *)
(* And of src/src/utils/viewport.js: getDevice and watchDevice.            *)
(***************************************************************************)
EXTENDS Integers, Sequences, FiniteSets, TLC

\* ---------------------------------------------------------------- bounds
MaxCount == 3       \* showLoading is not called with loadingCount at the cap
MaxTimers == 2      \* pending setTimeout teardowns
MaxFrames == 2      \* pending requestAnimationFrame callbacks
MaxListeners == 1   \* transitionend listeners registered on one line
MaxLog == 4         \* calls of a recorded run

\* ------------------------------------------------------- program constants
Null == 0           \* loadingInstance = null
Delay == 300        \* setTimeout(..., 300)

Texts == {"", "Loading"}            \* showLoading(text): absent or a label
Percents == {0, 1, 50, 101}         \* setLoadingBar(num) inputs
HostOverflows == {"", "auto"}       \* body overflow set by the host page
TickSizes == {100}                  \* amounts by which time advances
Forces == BOOLEAN                   \* hideLoading(force)

\* navigator.userAgent, lower-cased, as the sequence of its words
UserAgentWords == {"windows", "ipad", "android", "mobile", "iphone"}
UserAgents == {<<a>> : a \in UserAgentWords}
                 \cup {<<a, b>> : a \in UserAgentWords, b \in UserAgentWords}
Widths == {320, 767, 768, 1024, 1025, 1440}    \* window.innerWidth

VARIABLES
    loadingCount,     \* let loadingCount
    loadingInstance,  \* let loadingInstance: a node (its index in nodes) or Null
    prevOverflow,     \* let prevOverflow
    widthPercent,     \* let widthPercent
    bodyOverflow,     \* document.body.style.overflow
    bodyChildren,     \* overlay nodes mounted in document.body, in document order
    nodes,            \* the live overlay nodes: [kind, text, width, listeners, transitioning]
    styleCount,       \* style elements with id "loading-style-by-ian" in document.head
    timers,           \* pending teardown timers: time left of each, in scheduling order
    frames,           \* pending animation-frame callbacks: the line each one captured
    hostOverflow,     \* body overflow before the module first touched it
    forced,           \* the caller's position: its last call was hideLoading(true)
    fired,            \* the callback the last step ran, "none" after any other step
    log,              \* the calls of a recorded run, in order: <<function,
                      \* argument, a progress line was mounted at the call>>
    userAgent,        \* navigator.userAgent
    innerWidth,       \* window.innerWidth
    listening,        \* watchDevice's handler is a resize listener of window
    watch,            \* the watcher's position: "idle", "watching", "unwatched"
    lastDevice,       \* let lastDevice of watchDevice
    reported,         \* the device at registration or at the callback's last invocation
    notified,         \* what the last step passed to the callback, or NoResult
    detected          \* what the last getDevice() call returned, or NoResult

viewVars == <<userAgent, innerWidth, listening, watch, lastDevice, reported,
              notified, detected>>

overlayVars == <<loadingCount, loadingInstance, prevOverflow, widthPercent,
                 bodyOverflow, bodyChildren, nodes, styleCount, timers, frames,
                 hostOverflow, forced, fired, log>>

vars == <<overlayVars, viewVars>>

\* ---------------------------------------------------------------- helpers
Range(s) == {s[i] : i \in 1..Len(s)}

Max(a, b) == IF a >= b THEN a ELSE b

\* node.parentNode is non-null
Mounted(n) == n \in Range(bodyChildren)

\* parentNode.removeChild(n)
RemoveChild(children, n) == SelectSeq(children, LAMBDA x : x # n)

\* document.createElement: a node no reference points to yet
FreshId == Len(nodes) + 1

\* A node leaving the document has its running transition cancelled.
Detach(ns, gone) ==
    [m \in DOMAIN ns |-> IF m \in gone THEN [ns[m] EXCEPT !.transitioning = FALSE]
                                       ELSE ns[m]]

\* The nodes some reference still reaches, each once: the mounted ones in document
\* order, then the handle, then the lines captured by pending frame callbacks.
Reachable(inst, children, frs) ==
    LET all == children \o (IF inst = Null THEN <<>> ELSE <<inst>>) \o frs
        first == {i \in 1..Len(all) : \A j \in 1..(i - 1) : all[j] # all[i]}
    IN [k \in 1..Cardinality(first) |->
          all[CHOOSE i \in first : Cardinality({j \in first : j < i}) = k - 1]]

Index(order, n) == CHOOSE i \in 1..Len(order) : order[i] = n

\* The heap after a step: unreachable nodes are garbage-collected and the live ones
\* are named by their position in Reachable, so that object identity is kept up to
\* renaming (two heaps that differ only in the names of their nodes are one state).
Place(inst, children, ns, frs) ==
    LET order == Reachable(inst, children, frs)
    IN /\ loadingInstance' = (IF inst = Null THEN Null ELSE Index(order, inst))
       /\ bodyChildren' = [i \in 1..Len(children) |-> Index(order, children[i])]
       /\ frames' = [i \in 1..Len(frs) |-> Index(order, frs[i])]
       /\ nodes' = [i \in 1..Len(order) |-> ns[order[i]]]

\* injectStyle: append the style element unless one with the marker id exists
\* variant: the style element is appended without looking for an existing one
injectStyleAgain(count) == count + 1

injectStyle(count) == IF count > 0 THEN count ELSE count + 1

\* if (loadingInstance && loadingInstance.parentNode) removeChild(loadingInstance)
\* variant: the old node is not removed from the document
RemoveInstanceForgets(children) == children

RemoveInstance(children) ==
    IF loadingInstance # Null /\ Mounted(loadingInstance)
    THEN RemoveChild(children, loadingInstance)
    ELSE children

RemovedByInstance ==
    IF loadingInstance # Null /\ Mounted(loadingInstance) THEN {loadingInstance} ELSE {}

\* document.querySelector(".ian-loading-bar-line"): first line in the document
BarPositions == {i \in 1..Len(bodyChildren) : nodes[bodyChildren[i]].kind = "bar"}
QueryLine ==
    IF BarPositions = {} THEN Null
    ELSE bodyChildren[CHOOSE i \in BarPositions : \A j \in BarPositions : i <= j]

\* ------------------------------------------------------------------- Init
NoResult == [device |-> "none", isMobile |-> FALSE]

\* The page before watchDevice or getDevice is called.
InitViewport ==
    /\ userAgent \in UserAgents
    /\ innerWidth \in Widths
    /\ listening = FALSE
    /\ watch = "idle"
    /\ lastDevice = "none"
    /\ reported = "none"
    /\ notified = NoResult
    /\ detected = NoResult

\* loading.js right after the module is loaded.
InitOverlay ==
    /\ loadingCount = 0
    /\ loadingInstance = Null
    /\ prevOverflow = ""
    /\ widthPercent = 0
    /\ hostOverflow \in HostOverflows
    /\ bodyOverflow = hostOverflow
    /\ bodyChildren = <<>>
    /\ nodes = <<>>
    /\ styleCount = 0
    /\ timers = <<>>
    /\ frames = <<>>
    /\ forced = FALSE
    /\ fired = "none"
    /\ log = <<>>

\* The overlay on one desktop page that never calls viewport.js.
Init ==
    /\ InitOverlay
    /\ InitViewport
    /\ userAgent = <<"windows">>
    /\ innerWidth = 1440

\* ------------------------------------------------------------ showLoading
\* if (loadingCount === 0)
\* variant: the overlay is built on every call
ShowCreatesAlways == TRUE

ShowCreates == loadingCount = 0

\* prevOverflow = document.body.style.overflow
SavedOverflow == bodyOverflow

\* The mask showLoading builds: a spinner and a text element.
SpinnerNode(text) ==
    [kind |-> "spinner", text |-> text, width |-> 0, listeners |-> 0,
     transitioning |-> FALSE]

showLoading(text) ==
    /\ loadingCount < MaxCount
    /\ styleCount' = injectStyle(styleCount)
    /\ IF ShowCreates
       THEN /\ Place(FreshId, Append(RemoveInstance(bodyChildren), FreshId),
                     Append(Detach(nodes, RemovedByInstance), SpinnerNode(text)),
                     frames)
            /\ prevOverflow' = SavedOverflow
            /\ bodyOverflow' = "hidden"
       ELSE UNCHANGED <<loadingInstance, bodyChildren, nodes, frames, prevOverflow,
                        bodyOverflow>>
    /\ loadingCount' = loadingCount + 1
    /\ forced' = FALSE
    /\ fired' = "none"
    /\ UNCHANGED <<widthPercent, timers, hostOverflow, log, viewVars>>

\* ------------------------------------------------------------ hideLoading
\* if (!loadingInstance || loadingCount <= 0)
\* variant: the guard without its count test
HideIsNoopNoCount == loadingInstance = Null

\* variant: the guard with (loadingCount < 0) for (loadingCount <= 0)
HideIsNoopStrict == loadingInstance = Null \/ loadingCount < 0

HideIsNoop == loadingInstance = Null \/ loadingCount <= 0

\* if (!force) loadingCount--; else loadingCount = 0;
\* variant: force ignored, the count always decremented
HideCountIgnoresForce(force) == loadingCount - 1

HideCount(force) == IF ~force THEN loadingCount - 1 ELSE 0

\* if (loadingCount === 0) setTimeout(..., 300)
\* variant: the zero test written as (loadingCount < 0), so no teardown is scheduled
HideSchedulesNever(count) == count < 0

HideSchedules(count) == count = 0

\* setTimeout(() => { ... }, 300)
\* variant: the callback is queued with no delay
ScheduledAtOnce(ts) == Append(ts, 0)

Scheduled(ts) == Append(ts, Delay)

hideLoading(force) ==
    /\ IF HideIsNoop
       THEN /\ loadingCount' = 0
            /\ UNCHANGED timers
       ELSE /\ loadingCount' = HideCount(force)
            /\ IF HideSchedules(loadingCount')
               THEN /\ Len(timers) < MaxTimers
                    /\ timers' = Scheduled(timers)
               ELSE UNCHANGED timers
    /\ forced' = force
    /\ fired' = "none"
    /\ UNCHANGED <<loadingInstance, prevOverflow, widthPercent, bodyOverflow,
                   bodyChildren, nodes, styleCount, frames, hostOverflow, log,
                   viewVars>>

\* The setTimeout callback of hideLoading.
\* if (loadingCount > 0) return;
\* variant: the re-check written as (loadingCount > 1)
TeardownSkipsOffByOne == loadingCount > 1

\* variant: the callback without its re-check of the count
TeardownSkipsNever == FALSE

TeardownSkips == loadingCount > 0

\* document.body.style.overflow = prevOverflow
\* variant: cleanup leaves the body's overflow as it is
RestoredOverflowKeeps == bodyOverflow

RestoredOverflow == prevOverflow

Teardown ==
    /\ timers # <<>>
    /\ Head(timers) = 0
    /\ timers' = Tail(timers)
    /\ IF TeardownSkips
       THEN UNCHANGED <<loadingInstance, bodyChildren, nodes, frames, bodyOverflow>>
       ELSE /\ Place(Null, RemoveInstance(bodyChildren),
                     Detach(nodes, RemovedByInstance), frames)
            /\ bodyOverflow' = RestoredOverflow
    /\ fired' = "teardown"
    /\ UNCHANGED <<loadingCount, prevOverflow, widthPercent, styleCount,
                   hostOverflow, forced, log, viewVars>>

\* Time passes: every pending timer gets closer to due; a due timer may wait.
Tick(d) ==
    /\ \E i \in 1..Len(timers) : timers[i] > 0
    /\ timers' = [i \in 1..Len(timers) |-> Max(0, timers[i] - d)]
    /\ fired' = "none"
    /\ UNCHANGED <<loadingCount, loadingInstance, prevOverflow, widthPercent,
                   bodyOverflow, bodyChildren, nodes, styleCount, frames,
                   hostOverflow, forced, log, viewVars>>

\* -------------------------------------------------------- loadingBarStart
\* The mask loadingBarStart builds: a track holding a zero-width line.
BarNode ==
    [kind |-> "bar", text |-> "", width |-> 0, listeners |-> 0,
     transitioning |-> FALSE]

\* document.body.style.overflow = "hidden"
\* variant: loadingBarStart leaves the body's overflow as it is
LockedOverflowKeeps == bodyOverflow

LockedOverflow == "hidden"

loadingBarStart ==
    /\ styleCount' = injectStyle(styleCount)
    /\ Place(FreshId, Append(RemoveInstance(bodyChildren), FreshId),
             Append(Detach(nodes, RemovedByInstance), BarNode), frames)
    /\ prevOverflow' = SavedOverflow
    /\ bodyOverflow' = LockedOverflow
    /\ widthPercent' = 0
    /\ forced' = FALSE
    /\ fired' = "none"
    /\ UNCHANGED <<loadingCount, timers, hostOverflow, viewVars>>

\* ---------------------------------------------------------- setLoadingBar
\* if (num < 1 || num > 100) return;
\* variant: the lower limit written as (num < 0)
OutOfRangeFromZero(num) == num < 0 \/ num > 100

OutOfRange(num) == num < 1 \/ num > 100

\* widthPercent = num
\* variant: a later call does not replace a progress already stored
StoredProgressKeepsFirst(num) == IF widthPercent = 0 THEN num ELSE widthPercent

StoredProgress(num) == num

\* if (!line) return;
\* variant: setLoadingBar without its test of the line
LineMissingNever == FALSE

LineMissing == QueryLine = Null

\* The body of setLoadingBar, on the variables it touches.
SetBar(num) ==
    IF OutOfRange(num) \/ LineMissing
    THEN UNCHANGED <<widthPercent, frames>>
    ELSE /\ Len(frames) < MaxFrames
         /\ widthPercent' = StoredProgress(num)
         /\ frames' = Append(frames, QueryLine)

setLoadingBar(num) ==
    /\ SetBar(num)
    /\ forced' = FALSE
    /\ fired' = "none"
    /\ UNCHANGED <<loadingCount, loadingInstance, prevOverflow, bodyOverflow,
                   bodyChildren, nodes, styleCount, timers, hostOverflow, viewVars>>

\* The requestAnimationFrame callbacks: line.style.width = `${widthPercent}%`.
\* All callbacks pending at a frame run in that frame, each on the line it captured.
\* A width change on a mounted line starts (or restarts) its width transition.
Painted(ns) ==
    [m \in DOMAIN ns |->
       IF m \in Range(frames)
       THEN [ns[m] EXCEPT
              !.width = widthPercent,
              !.transitioning = \/ ns[m].transitioning
                                \/ (Mounted(m) /\ ns[m].width # widthPercent)]
       ELSE ns[m]]

AnimationFrame ==
    /\ frames # <<>>
    /\ Place(loadingInstance, bodyChildren, Painted(nodes), <<>>)
    /\ fired' = "frame"
    /\ UNCHANGED <<loadingCount, prevOverflow, widthPercent, bodyOverflow,
                   styleCount, timers, hostOverflow, forced, log, viewVars>>

\* ---------------------------------------------------------- loadingBarEnd
loadingBarEnd ==
    /\ IF QueryLine = Null
       THEN UNCHANGED <<nodes, widthPercent, frames>>
       ELSE /\ nodes[QueryLine].listeners < MaxListeners
            /\ nodes' = [nodes EXCEPT ![QueryLine].listeners = @ + 1]
            /\ SetBar(100)
    /\ forced' = FALSE
    /\ fired' = "none"
    /\ UNCHANGED <<loadingCount, loadingInstance, prevOverflow, bodyOverflow,
                   bodyChildren, styleCount, timers, hostOverflow, viewVars>>

\* The transitionend event of a mounted line whose width transition finishes.
\* Every { once: true } listener runs cleanup and is removed; cleanup is
\* idempotent, so running it once stands for running it once per listener.
TransitionEnd(n) ==
    /\ n \in DOMAIN nodes
    /\ Mounted(n)
    /\ nodes[n].transitioning
    /\ IF nodes[n].listeners > 0
       THEN /\ Place(Null, RemoveInstance(bodyChildren),
                     Detach([nodes EXCEPT ![n].transitioning = FALSE,
                                          ![n].listeners = 0],
                            RemovedByInstance),
                     frames)
            /\ widthPercent' = 0
            /\ bodyOverflow' = RestoredOverflow
       ELSE /\ nodes' = [nodes EXCEPT ![n].transitioning = FALSE]
            /\ UNCHANGED <<bodyChildren, loadingInstance, frames, widthPercent,
                           bodyOverflow>>
    /\ fired' = "transitionend"
    /\ UNCHANGED <<loadingCount, prevOverflow, styleCount, timers, hostOverflow,
                   forced, log, viewVars>>

\* -------------------------------------------------------------- getDevice
\* A word of the user agent contains the keyword (the patterns are unanchored).
Substrings == {<<"mobi", "mobile">>, <<"mobi", "iemobile">>,
               <<"mobile", "iemobile">>, <<"silk", "silk-accelerated">>}
Contains(word, key) == word = key \/ <<key, word>> \in Substrings

TabletKeywords == {"tablet", "ipad", "playbook", "silk"}
PhoneKeywords == {"mobile", "android", "iphone", "ipod", "iemobile", "blackberry",
                  "kindle", "silk-accelerated", "hpwos"}

\* /(tablet|ipad|playbook|silk)|(android(?!.*mobi))/i.test(ua)
isTablet ==
    \E i \in DOMAIN userAgent :
        \/ \E key \in TabletKeywords : Contains(userAgent[i], key)
        \/ /\ Contains(userAgent[i], "android")
           /\ ~\E j \in (i + 1)..Len(userAgent) : Contains(userAgent[j], "mobi")

\* /Mobile|Android|iP(hone|od)|IEMobile|BlackBerry|Kindle|Silk-Accelerated|(hpwOS)/i
isPhone ==
    \E i \in DOMAIN userAgent :
        \E key \in PhoneKeywords : Contains(userAgent[i], key)

getDevice ==
    IF isTablet \/ (innerWidth <= 1024 /\ innerWidth >= 768)
    THEN [device |-> "tablet", isMobile |-> TRUE]
    ELSE IF isPhone \/ innerWidth < 768
         THEN [device |-> "mobile", isMobile |-> TRUE]
         ELSE [device |-> "desktop", isMobile |-> FALSE]

\* A direct call of getDevice() by the application.
Detect ==
    /\ detected' = getDevice
    /\ notified' = NoResult
    /\ UNCHANGED <<userAgent, innerWidth, listening, watch, lastDevice, reported>>
    /\ UNCHANGED overlayVars

\* ------------------------------------------------------------ watchDevice
watchDevice ==
    /\ watch = "idle"
    /\ lastDevice' = getDevice.device
    /\ listening' = TRUE
    /\ watch' = "watching"
    /\ reported' = getDevice.device
    /\ notified' = NoResult
    /\ UNCHANGED <<userAgent, innerWidth, detected>>
    /\ UNCHANGED overlayVars

\* lastDevice = currentDevice
\* variant: the handler does not remember the device it reported
HandlerRemembersNothing(current) == lastDevice

HandlerRemembers(current) == current.device

\* const handler = () => { ... }, run after the window got its new size
handler ==
    LET current == getDevice' IN
    IF current.device # lastDevice
    THEN /\ lastDevice' = HandlerRemembers(current)
         /\ notified' = current
         /\ reported' = current.device
    ELSE /\ notified' = NoResult
         /\ UNCHANGED <<lastDevice, reported>>

\* The window is resized to width w and dispatches its resize event.
resize(w) ==
    /\ innerWidth' = w
    /\ UNCHANGED <<userAgent, listening, watch>>
    /\ detected' = NoResult
    /\ IF listening
       THEN handler
       ELSE /\ notified' = NoResult
            /\ UNCHANGED <<lastDevice, reported>>
    /\ UNCHANGED overlayVars

\* window.removeEventListener("resize", handler)
\* variant: the listener stays registered
RemoveEventListenerMisses == listening

RemoveEventListener == FALSE

\* The function watchDevice returned.
unwatch ==
    /\ watch \in {"watching", "unwatched"}
    /\ listening' = RemoveEventListener
    /\ watch' = "unwatched"
    /\ notified' = NoResult
    /\ UNCHANGED <<userAgent, innerWidth, lastDevice, reported, detected>>
    /\ UNCHANGED overlayVars

\* ------------------------------------------------------------ the actions
Show == \E text \in Texts : showLoading(text)
Hide == \E force \in Forces : hideLoading(force)
Advance == \E d \in TickSizes : Tick(d)
BarStart == loadingBarStart /\ UNCHANGED log
SetProgress == \E num \in Percents : setLoadingBar(num) /\ UNCHANGED log
BarEnd == loadingBarEnd /\ UNCHANGED log
Transition == \E n \in DOMAIN nodes : TransitionEnd(n)

Next ==
    \/ Show
    \/ Hide
    \/ Teardown
    \/ Advance
    \/ BarStart
    \/ SetProgress
    \/ AnimationFrame
    \/ BarEnd
    \/ Transition

Spec == Init /\ [][Next]_vars

\* Runs that use only showLoading and hideLoading (and the timers they leave).
NextShowHide ==
    \/ Show
    \/ Hide
    \/ Teardown
    \/ Advance

SpecShowHide == Init /\ [][NextShowHide]_vars

\* Runs in which every hideLoading() answers an earlier showLoading():
\* hides are not forced and never outnumber the shows before them.
HideMatched == loadingCount > 0 /\ hideLoading(FALSE)

NextBalanced ==
    \/ Show
    \/ HideMatched
    \/ Teardown
    \/ Advance

SpecBalanced == Init /\ [][NextBalanced]_vars

\* Runs of at most MaxLog calls that use only the progress bar, each call
\* recorded in log; the frame and transitionend callbacks fire at any point.
RecordedBarStart ==
    /\ Len(log) < MaxLog
    /\ loadingBarStart
    /\ log' = Append(log, <<"loadingBarStart", 0, QueryLine # Null>>)

RecordedSetProgress ==
    \E num \in Percents :
        /\ Len(log) < MaxLog
        /\ setLoadingBar(num)
        /\ log' = Append(log, <<"setLoadingBar", num, QueryLine # Null>>)

RecordedBarEnd ==
    /\ Len(log) < MaxLog
    /\ loadingBarEnd
    /\ log' = Append(log, <<"loadingBarEnd", 0, QueryLine # Null>>)

NextBar ==
    \/ RecordedBarStart
    \/ RecordedSetProgress
    \/ RecordedBarEnd
    \/ AnimationFrame
    \/ Transition

SpecBar == Init /\ [][NextBar]_vars

\* Runs of showLoading and the progress bar calls, the bar calls recorded.
NextShowBar ==
    \/ Show
    \/ RecordedBarStart
    \/ RecordedSetProgress
    \/ RecordedBarEnd
    \/ AnimationFrame
    \/ Transition

SpecShowBar == Init /\ [][NextShowBar]_vars

\* Runs in which hideLoading is never called while a bar is mounted: a timer
\* pending under a mounted bar was set by a hide made before that bar's
\* loadingBarStart.
HideWithoutBar == QueryLine = Null /\ Hide

NextHideFirst ==
    \/ Show
    \/ HideWithoutBar
    \/ Teardown
    \/ Advance
    \/ BarStart

SpecHideFirst == Init /\ [][NextHideFirst]_vars

\* Runs of viewport.js on any user agent and width, with one watcher.
Resize == \E w \in Widths : resize(w)

NextViewport ==
    \/ Detect
    \/ watchDevice
    \/ Resize
    \/ unwatch

InitAnyDevice ==
    /\ InitOverlay
    /\ InitViewport

SpecViewport == InitAnyDevice /\ [][NextViewport]_vars

\* ----------------------------------------------------------------- claims
\* No callback is left that could still change the overlay.
NoMountedTransition == \A n \in Range(bodyChildren) : ~nodes[n].transitioning
Quiescent == timers = <<>> /\ frames = <<>> /\ NoMountedTransition

\* Steps recognised by what they do to the variables.
ShowStep == loadingCount' = loadingCount + 1
TeardownStep == Len(timers') < Len(timers)

\* C1: in a run of matched showLoading/hideLoading calls, every show adds one to the
\* count and every hide takes one off, and once the count is back at 0 (as many
\* hides as shows) and every pending teardown has fired, no overlay node is mounted
\* and the handle is null.
C1_TornDownAfterLastHide ==
    /\ [](loadingCount = 0 /\ timers = <<>>
            => bodyChildren = <<>> /\ loadingInstance = Null)
    /\ [][/\ Show => loadingCount' = loadingCount + 1
          /\ HideMatched => loadingCount' = loadingCount - 1]_vars

\* C1 witness: a teardown has just fired after the last hide and left nothing.
C1_Witness ==
    /\ fired = "teardown"
    /\ loadingCount = 0
    /\ timers = <<>>
    /\ styleCount = 1
    /\ bodyChildren = <<>>

\* C2 (as claimed): in a run of matched showLoading/hideLoading calls, once the
\* count is back at 0 and every pending teardown has fired, the body overflow is
\* the value it had before the first show.
C2_OverflowRestored ==
    loadingCount = 0 /\ timers = <<>> => bodyOverflow = hostOverflow

\* C3: in a run of showLoading/hideLoading calls, while the count is above 0
\* exactly one overlay node is mounted, it is the handle's node, and the body
\* overflow is "hidden".
C3_VisibleWhileCounted ==
    loadingCount > 0 =>
        /\ Len(bodyChildren) = 1
        /\ loadingInstance # Null
        /\ bodyChildren[1] = loadingInstance
        /\ bodyOverflow = "hidden"

\* C3 witness: a teardown fired while the count was above 0 and the overlay is
\* still there.
C3_Witness ==
    /\ fired = "teardown"
    /\ loadingCount > 0
    /\ bodyChildren = <<loadingInstance>>

\* C4: a showLoading call made after the count fell to 0 and before the teardown
\* fired leaves the count at 1 with one overlay mounted and the overflow "hidden";
\* a teardown that fires while the count is above 0 changes nothing and leaves one
\* overlay mounted with the overflow "hidden".
C4_ShowCancelsTeardown ==
    [][/\ (ShowStep /\ loadingCount = 0 /\ timers # <<>> /\ bodyChildren # <<>>)
            => /\ loadingCount' = 1
               /\ bodyChildren' = <<loadingInstance'>>
               /\ bodyOverflow' = "hidden"
       /\ (TeardownStep /\ loadingCount > 0)
            => /\ UNCHANGED <<loadingCount, loadingInstance, prevOverflow,
                              bodyOverflow, bodyChildren, nodes>>
               /\ bodyChildren' = <<loadingInstance'>>
               /\ bodyOverflow' = "hidden"]_vars

\* C4 witness: after show, hide, show the teardown has fired, and the count is 1
\* with the overlay mounted (prevOverflow is "hidden" only when a show found the
\* previous overlay still mounted).
C4_Witness ==
    /\ fired = "teardown"
    /\ timers = <<>>
    /\ loadingCount = 1
    /\ prevOverflow = "hidden"
    /\ bodyChildren = <<loadingInstance>>

C6_ForceCloses == forced /\ Quiescent => bodyChildren = <<>>

C8_CountNonNegative == loadingCount \in Nat

\* C8 witness: hideLoading(true) was called before any showLoading (more hides
\* than shows) and the count is 0.
C8_Witness ==
    /\ forced
    /\ styleCount = 0
    /\ loadingCount = 0

\* C9: at most one overlay mask is mounted in the body, and a mounted mask is the
\* one the handle refers to.
C9_OneMaskOwnedByHandle ==
    /\ Len(bodyChildren) <= 1
    /\ \A n \in Range(bodyChildren) : n = loadingInstance

\* C9 witness: loadingBarStart replaced a counted spinner overlay: the bar is the
\* only mounted mask while the count is above 0.
C9_Witness ==
    /\ loadingCount > 0
    /\ bodyChildren = <<loadingInstance>>
    /\ nodes[loadingInstance].kind = "bar"

\* C10 (as claimed): the saved overflow is written only when no overlay is mounted
\* and one gets mounted, and it is never the "hidden" the overlay itself set.
C10_SavedOnlyWhenInvisible ==
    [][/\ prevOverflow' # prevOverflow => bodyChildren = <<>> /\ bodyChildren' # <<>>
       /\ prevOverflow' # "hidden"]_vars

\* The recorded run loadingBarStart(); setLoadingBar(50); loadingBarEnd() and
\* the part of it before loadingBarEnd().
HalfThenEnd ==
    <<(<<"loadingBarStart", 0, FALSE>>), (<<"setLoadingBar", 50, TRUE>>),
      (<<"loadingBarEnd", 0, TRUE>>)>>
HalfOnly == SubSeq(HalfThenEnd, 1, 2)

\* The width of the mounted progress line (where QueryLine is not Null).
LineWidth == nodes[QueryLine].width

StartsThenEnd ==
    /\ Len(log) >= 2
    /\ log[Len(log)][1] = "loadingBarEnd"
    /\ \A i \in 1..(Len(log) - 1) : log[i][1] # "loadingBarEnd"
    /\ \E i \in 1..(Len(log) - 1) : log[i][1] = "loadingBarStart"

C13_OutOfRangeIsNoop ==
    [][\A num \in Percents :
         (num < 1 \/ num > 100) /\ setLoadingBar(num) =>
            UNCHANGED <<widthPercent, frames, nodes, bodyChildren, loadingInstance,
                        prevOverflow, bodyOverflow, loadingCount, timers>>]_vars

\* C13 witness: setLoadingBar(101) was the last call, on a mounted bar whose line
\* had been painted at the stored 50: both are still 50 and no frame is pending.
C13_Witness ==
    /\ log = <<(<<"loadingBarStart", 0, FALSE>>), (<<"setLoadingBar", 50, TRUE>>),
               (<<"setLoadingBar", 101, TRUE>>)>>
    /\ fired = "none"
    /\ QueryLine # Null
    /\ LineWidth = 50
    /\ widthPercent = 50
    /\ frames = <<>>

\* C14: after any number of showLoading and loadingBarStart calls the document
\* holds exactly one injected style element: the first such call creates it, the
\* later ones leave it alone, and nothing else creates or removes one.
C14_OneStyleElement ==
    /\ [](styleCount <= 1)
    /\ [][/\ (Show \/ BarStart) => styleCount' = 1
          /\ styleCount' # styleCount => styleCount = 0 /\ (Show \/ BarStart)]_vars

\* C14 witness: showLoading was called twice and loadingBarStart after it (the
\* count is 2 under a mounted bar), and there is one style element.
C14_Witness ==
    /\ styleCount = 1
    /\ loadingCount = 2
    /\ QueryLine # Null

C16_ShowOnlyCounts ==
    [][Show =>
         /\ loadingCount' = loadingCount + 1
         /\ loadingCount > 0 =>
               UNCHANGED <<loadingInstance, bodyChildren, nodes, prevOverflow,
                           bodyOverflow, styleCount, widthPercent, timers, frames>>]_vars

\* C16 witness: a second showLoading was counted over the spinner the first one
\* mounted with the text "Loading".
C16_Witness ==
    /\ loadingCount = 2
    /\ fired = "none"
    /\ ~forced
    /\ bodyChildren = <<loadingInstance>>
    /\ nodes[loadingInstance].kind = "spinner"
    /\ nodes[loadingInstance].text = "Loading"

\* C17 (as claimed): getDevice gives the user agent priority over the width: a
\* user agent matching the tablet pattern yields "tablet" and one matching the
\* phone pattern but not the tablet pattern yields "mobile", for every width;
\* the width decides only when the user agent matches neither; and isMobile is
\* false exactly when the device is "desktop".
C17_UserAgentFirst ==
    detected # NoResult =>
      /\ isTablet => detected.device = "tablet"
      /\ (isPhone /\ ~isTablet) => detected.device = "mobile"
      /\ (~isPhone /\ ~isTablet) =>
            detected.device = (IF innerWidth < 768 THEN "mobile"
                               ELSE IF innerWidth <= 1024 THEN "tablet"
                               ELSE "desktop")
      /\ detected.isMobile = FALSE <=> detected.device = "desktop"

\* C18: while the watcher is registered, a resize event invokes the callback if
\* and only if the device computed at that event differs from the device at the
\* callback's previous invocation (at registration before the first one), and
\* the callback receives what getDevice returns at that event.
C18_CallbackIffDeviceChanged ==
    [][Resize /\ watch = "watching" =>
         /\ notified' # NoResult <=> getDevice'.device # reported
         /\ notified' # NoResult => notified' = getDevice']_vars

\* C18 witness: a registered watcher's callback has just been invoked with
\* "desktop", the window having been resized to 1440 from a narrower width.
C18_Witness ==
    /\ watch = "watching"
    /\ notified = [device |-> "desktop", isMobile |-> FALSE]
    /\ reported = "desktop"
    /\ innerWidth = 1440

\* C19: once the unwatch function has been called, no step invokes the callback,
\* whatever resize events and device changes follow.
C19_NoCallbackAfterUnwatch ==
    [][watch = "unwatched" => notified' = NoResult]_vars

\* C19 witness: after unwatch a resize changed the device (it differs from the
\* one the handler last saw) and the callback was not invoked.
C19_Witness ==
    /\ watch = "unwatched"
    /\ getDevice.device # lastDevice
    /\ detected = NoResult
    /\ notified = NoResult

\* A recorded setLoadingBar call with a value in 1..100, made on a mounted bar.
InRange(entry) == entry[1] = "setLoadingBar" /\ entry[2] >= 1 /\ entry[2] <= 100
OnBar(entry) == entry[3]

\* The last two recorded calls are in-range setLoadingBar calls on the bar.
TwoSetsLast ==
    /\ Len(log) >= 2
    /\ InRange(log[Len(log) - 1]) /\ OnBar(log[Len(log) - 1])
    /\ InRange(log[Len(log)]) /\ OnBar(log[Len(log)])

\* The recorded calls that stored a progress (loadingBarEnd stores 100), and
\* the progress the last of them stored.
StoringCalls ==
    {i \in DOMAIN log :
        OnBar(log[i]) /\ (InRange(log[i]) \/ log[i][1] = "loadingBarEnd")}
LastAsked ==
    LET i == CHOOSE k \in StoringCalls : \A j \in StoringCalls : j <= k
    IN  IF log[i][1] = "loadingBarEnd" THEN 100 ELSE log[i][2]

\* C20 (as claimed): when the last calls were in-range setLoadingBar calls on the
\* bar, then once every scheduled frame callback has run the stored progress
\* and the line's width equal the value of the last call.
C20_LastValueWins ==
    TwoSetsLast /\ fired = "frame" /\ frames = <<>> =>
       /\ widthPercent = log[Len(log)][2]
       /\ QueryLine # Null
       /\ LineWidth = log[Len(log)][2]

\* C20 (amended): when the last calls were in-range setLoadingBar calls on the
\* bar and the bar is still mounted once every scheduled frame callback has run,
\* the line's width and the stored progress both equal the value of the last
\* call; and a frame callback always sets the mounted line it captured to the
\* progress stored last, also when several callbacks run in one frame.
C20_FramesPaintLastStored ==
    /\ [](TwoSetsLast /\ fired = "frame" /\ frames = <<>> /\ QueryLine # Null
            => LineWidth = log[Len(log)][2] /\ widthPercent = log[Len(log)][2])
    /\ [][AnimationFrame /\ QueryLine # Null /\ QueryLine \in Range(frames)
            => /\ QueryLine' # Null
               /\ LineWidth' = widthPercent
               /\ frames' = <<>>
               /\ StoringCalls # {}
               /\ widthPercent = LastAsked]_vars

\* C20 witness: setLoadingBar(50) and setLoadingBar(1) were the last calls on a
\* bar, the frame callbacks have run, and the line's width is 1.
C20_Witness ==
    /\ log = <<(<<"loadingBarStart", 0, FALSE>>), (<<"setLoadingBar", 50, TRUE>>),
               (<<"setLoadingBar", 1, TRUE>>)>>
    /\ fired = "frame"
    /\ frames = <<>>
    /\ QueryLine # Null
    /\ LineWidth = 1
    /\ widthPercent = 1

\* C21: when no progress line is mounted (nothing visible, or a counted spinner
\* visible), setLoadingBar and loadingBarEnd are no-ops: the stored progress, the
\* handle, the count, the mounted nodes (their listeners included) and the body's
\* overflow are unchanged, and no frame callback is scheduled.
C21_NoLineIsNoop ==
    [][QueryLine = Null
         /\ ((\E num \in Percents : setLoadingBar(num)) \/ loadingBarEnd)
         => UNCHANGED <<widthPercent, loadingInstance, loadingCount, bodyChildren,
                        nodes, prevOverflow, bodyOverflow, frames, timers,
                        styleCount>>]_vars

\* C21 witness: setLoadingBar(50) and then loadingBarEnd() were called over a
\* counted spinner with no line mounted: the spinner is as showLoading left it,
\* nothing is stored and no frame is pending.
C21_Witness ==
    /\ log = <<(<<"setLoadingBar", 50, FALSE>>), (<<"loadingBarEnd", 0, FALSE>>)>>
    /\ loadingCount = 1
    /\ bodyChildren = <<loadingInstance>>
    /\ nodes[loadingInstance] = SpinnerNode("Loading")
    /\ widthPercent = 0
    /\ frames = <<>>
    /\ bodyOverflow = "hidden"

\* C22: in a run of the bar calls only, a mounted bar keeps the body's overflow
\* "hidden" and is unmounted by nothing but a delivered transitionend (a later
\* loadingBarStart replacing it with a new bar aside); no timer is ever pending,
\* so without the transitionend the overlay stays for good.
C22_OnlyTransitionEndTearsDown ==
    /\ [](timers = <<>>)
    /\ [](bodyChildren # <<>> => QueryLine # Null /\ bodyOverflow = "hidden")
    /\ [][bodyChildren # <<>> /\ (bodyChildren' = <<>> \/ bodyOverflow' # "hidden")
            => Transition /\ LineWidth # 0 /\ nodes[QueryLine].listeners > 0]_vars

\* C22 witness: loadingBarEnd() was the last call and the frame has painted the
\* line at 100, but no transitionend has been delivered yet: the bar is mounted
\* and the body's overflow is "hidden".
C22_Witness ==
    /\ Len(log) > 0
    /\ log[Len(log)] = <<"loadingBarEnd", 0, TRUE>>
    /\ fired = "frame"
    /\ QueryLine # Null
    /\ LineWidth = 100
    /\ nodes[QueryLine].listeners > 0
    /\ bodyOverflow = "hidden"

\* C23 (as claimed): a teardown timer set by a hideLoading made before
\* loadingBarStart does not unmount the bar: when it fires, the bar stays mounted
\* and the body's overflow stays "hidden".
C23_StaleTimerSparesBar ==
    [][Teardown /\ QueryLine # Null
         => QueryLine' # Null /\ bodyOverflow' = "hidden"]_vars

\* A teardown step that unmounts the overlay.
TeardownUnmounts == Teardown /\ bodyChildren # <<>> /\ bodyChildren' = <<>>

\* C24 (as claimed): in a run of showLoading and hideLoading only, a teardown
\* unmounts the overlay no earlier than 300 after the most recent hideLoading
\* that brought the count to 0: the timer that hide set, the newest one pending,
\* is due when the overlay is unmounted.
C24_NotBeforeNewestHide ==
    [][TeardownUnmounts => timers[Len(timers)] = 0]_vars

\* C24 (amended): every hideLoading that brings the count to 0 over a mounted
\* overlay sets a timer of 300, and a teardown unmounts the overlay only with the
\* count at 0 and with the oldest pending timer due, that is no earlier than 300
\* after the hideLoading that set that timer, whatever newer timers are pending.
C24_NotBeforeOldestHide ==
    [][/\ (Hide /\ loadingCount > 0 /\ loadingCount' = 0)
            => /\ Len(timers') = Len(timers) + 1
               /\ timers'[Len(timers')] = 300
       /\ (Advance /\ timers[1] >= 100) => timers'[1] = timers[1] - 100
       /\ TeardownUnmounts => loadingCount = 0 /\ timers[1] = 0]_vars

\* C24 witness: a teardown has just unmounted the overlay while the timer of a
\* newer hideLoading still has time left.
C24_Witness ==
    /\ fired = "teardown"
    /\ loadingCount = 0
    /\ bodyChildren = <<>>
    /\ timers # <<>>
    /\ timers[1] > 0

\* C25: in a run of showLoading and hideLoading only, whenever the count is 0
\* and an overlay is still mounted, at least one teardown timer is pending.
C25_MountedAtZeroHasTimer ==
    loadingCount = 0 /\ bodyChildren # <<>> => timers # <<>>

\* C25 witness: hideLoading(true) closed a counted overlay: the count is 0, the
\* overlay is still mounted and its teardown is pending.
C25_Witness ==
    /\ forced
    /\ loadingCount = 0
    /\ bodyChildren = <<loadingInstance>>
    /\ timers = <<300>>

\* C26 (as claimed): under any interleaving of the five operations and their
\* callbacks, a count above 0 implies that the handle is not null and that its
\* overlay is mounted.
C26_CountedMeansMounted ==
    loadingCount > 0 => loadingInstance # Null /\ Mounted(loadingInstance)

====
